---- MODULE Spec2Model ----
(***************************************************************************)
(* Model of compose_to_quadlet.py: the ComposeToQuadletConverter class and  *)
(* the command-line entry point main().                                     *)
(*                                                                          *)
(* Python strings are sequences of one-character strings, so that the       *)
(* regular expressions and the startswith/endswith/split tests of the       *)
(* source act on characters.  Python dicts are sequences of [key, val]      *)
(* records in insertion order.  A rendered line of text is a record         *)
(* [k, a, b]: k names the f-string template of the source line that         *)
(* produced it and a, b are the strings interpolated into it.               *)
(***************************************************************************)
EXTENDS Integers, Sequences, FiniteSets, TLC

VARIABLES
    pc,             \* position of the running call
    compose_exists, \* main: Path(args.compose_file).exists()
    arg_output,     \* main: args.output given (TRUE) or None (FALSE)
    arg_name,       \* main: args.name, <<>> when None
    out_writable,   \* environment: open(output_file, 'w') succeeds
    doc,            \* convert: compose_data, what yaml.safe_load returned
    project_name,   \* convert: project_name
    variables,      \* self.variables
    volumes,        \* self.volumes
    networks,       \* self.networks
    dependencies,   \* convert: dependencies
    nix_config,     \* convert: nix_config
    out_file,       \* the output file: [exists, content]
    stdout,         \* what main printed to standard output
    stderr,         \* what main printed to standard error
    exit_code,      \* process exit code, -1 while running
    calls,          \* number of convert calls started on this converter
    text,           \* argument of a direct call of a string helper
    result          \* results of the successive direct calls

vars == <<pc, compose_exists, arg_output, arg_name, out_writable, doc,
          project_name, variables, volumes, networks, dependencies,
          nix_config, out_file, stdout, stderr, exit_code, calls, text, result>>

----------------------------------------------------------------------------
(* Bounds of the model *)

\* longest argument of a direct helper call, in pieces of Pieces
MaxPieces == 4
\* how many times _replace_env_vars is applied in a row to one text
MaxApply == 2
\* convert calls made on one converter object
MaxCalls == 2

----------------------------------------------------------------------------
(* Strings *)

StartsWith(s, p) == Len(p) <= Len(s) /\ SubSeq(s, 1, Len(p)) = p

EndsWith(s, p) == Len(p) <= Len(s) /\ SubSeq(s, Len(s) - Len(p) + 1, Len(s)) = p

Contains(s, c) == \E i \in 1..Len(s) : s[i] = c

\* index of the first c at or after from, 0 when there is none
FirstIndex(s, c, from) ==
    IF \E j \in from..Len(s) : s[j] = c
    THEN CHOOSE j \in from..Len(s) : s[j] = c /\ \A k \in from..(j-1) : s[k] # c
    ELSE 0

SetMax(S) == CHOOSE x \in S : \A y \in S : y <= x

RECURSIVE Split(_, _)
Split(s, c) ==
    LET i == FirstIndex(s, c, 1)
    IN  IF i = 0 THEN <<s>>
        ELSE <<SubSeq(s, 1, i - 1)>> \o Split(SubSeq(s, i + 1, Len(s)), c)

RECURSIVE Concat(_)
Concat(ss) == IF ss = <<>> THEN <<>> ELSE Head(ss) \o Concat(Tail(ss))

RECURSIVE Join(_, _)
Join(sep, ss) ==
    IF ss = <<>> THEN <<>>
    ELSE IF Len(ss) = 1 THEN ss[1]
    ELSE ss[1] \o sep \o Join(sep, Tail(ss))

Upper == <<"A","B","C","D","E","F","G","H","I","J","K","L","M","N","O","P","Q","R","S","T","U","V","W","X","Y","Z">>
LowerOf == <<"a","b","c","d","e","f","g","h","i","j","k","l","m","n","o","p","q","r","s","t","u","v","w","x","y","z">>

LowerChar(c) ==
    IF \E i \in 1..Len(Upper) : Upper[i] = c
    THEN LowerOf[CHOOSE i \in 1..Len(Upper) : Upper[i] = c]
    ELSE c

Lower(s) == [i \in 1..Len(s) |-> LowerChar(s[i])]

Digits == <<"0","1","2","3","4","5","6","7","8","9">>

RECURSIVE Decimal(_)
Decimal(n) == IF n < 10 THEN <<Digits[n + 1]>> ELSE Decimal(n \div 10) \o <<Digits[(n % 10) + 1]>>

STACK_PATH == <<"S","T","A","C","K","_","P","A","T","H">>
ManagedPrefix == <<"$","{","S","T","A","C","K","_","P","A","T","H","}","/">>
StacksDir == <<"\"","/","e","t","c","/","s","t","a","c","k","s","/">>
DevPrefix == <<"/","d","e","v">>
EtcPrefix == <<"/","e","t","c">>
RoSuffix == <<":","r","o">>
ZSuffix == <<":","z">>
Loopback == <<"1","2","7",".","0",".","0",".","1",":">>
AnyAddr == <<"0",".","0",".","0",".","0",":">>
ServiceSuffix == <<".","s","e","r","v","i","c","e">>

----------------------------------------------------------------------------
(* Dicts: sequences of [key, val] in insertion order *)

HasKey(d, k) == \E i \in 1..Len(d) : d[i].key = k

Lookup(d, k) == d[CHOOSE i \in 1..Len(d) : d[i].key = k].val

Keys(d) == {d[i].key : i \in 1..Len(d)}

\* d[k] = v: a new key goes last, an old key keeps its place
Put(d, k, v) ==
    IF HasKey(d, k)
    THEN [i \in 1..Len(d) |-> IF d[i].key = k THEN [key |-> k, val |-> v] ELSE d[i]]
    ELSE Append(d, [key |-> k, val |-> v])

----------------------------------------------------------------------------
(* The regular expressions *)

OpensAt(s, i) == i + 1 <= Len(s) /\ s[i] = "$" /\ s[i + 1] = "{"

\* \$\{([^}]+)\} tried at i: the index of the closing brace, 0 for no match.
\* No group may hold a "}", so a match ends at the first one.
BraceEnd(s, i) ==
    IF OpensAt(s, i)
    THEN LET j == FirstIndex(s, "}", i + 2) IN IF j > i + 2 THEN j ELSE 0
    ELSE 0

\* \$\{([^}]+):-([^}]+)\}: the places of ":-" that leave both groups non-empty
DefaultSeps(s, i, j) ==
    {k \in (i + 3)..(j - 3) : s[k] = ":" /\ s[k + 1] = "-"}

\* the greedy first group takes the last separator
DefaultSep(s, i, j) == SetMax(DefaultSeps(s, i, j))

\* \$\{([^}]+)(?::-[^}]*)?\}: the ends the first group can have, the optional
\* group matching either nothing or ":-" and the rest
NameEnds(s, i, j) ==
    {e \in (i + 2)..(j - 1) :
        e = j - 1 \/ (e + 2 <= j - 1 /\ s[e + 1] = ":" /\ s[e + 2] = "-")}

\* the first group is greedy
NameEnd(s, i, j) == SetMax(NameEnds(s, i, j))

RECURSIVE FindAll(_, _)
FindAll(s, i) ==
    IF i > Len(s) THEN {}
    ELSE LET j == BraceEnd(s, i)
         IN  IF j # 0
             THEN {SubSeq(s, i + 2, NameEnd(s, i, j))} \cup FindAll(s, j + 1)
             ELSE FindAll(s, i + 1)

_find_env_vars(s) == FindAll(s, 1)

\* match.group(2) of the pattern without a second group
None == <<>>

replace_var(table, var_name, default_value) ==
    IF HasKey(table, var_name) THEN <<"$", "{">> \o var_name \o <<"}">>
    ELSE IF default_value # None THEN default_value
    ELSE <<"$", "{">> \o var_name \o <<"}">>

RECURSIVE SubDefault(_, _, _)
SubDefault(table, s, i) ==
    IF i > Len(s) THEN <<>>
    ELSE LET j == BraceEnd(s, i)
         IN  IF j # 0 /\ DefaultSeps(s, i, j) # {}
             THEN LET k == DefaultSep(s, i, j)
                  IN  replace_var(table, SubSeq(s, i + 2, k - 1), SubSeq(s, k + 2, j - 1))
                        \o SubDefault(table, s, j + 1)
             ELSE <<s[i]>> \o SubDefault(table, s, i + 1)

RECURSIVE SubBare(_, _, _)
SubBare(table, s, i) ==
    IF i > Len(s) THEN <<>>
    ELSE LET j == BraceEnd(s, i)
         IN  IF j # 0
             THEN replace_var(table, SubSeq(s, i + 2, j - 1), None)
                        \o SubBare(table, s, j + 1)
             ELSE <<s[i]>> \o SubBare(table, s, i + 1)

_replace_env_vars(table, s) == SubBare(table, SubDefault(table, s, 1), 1)

----------------------------------------------------------------------------
(* _convert_volume on a string mount *)

RECURSIVE SubstituteVolume(_, _, _)
SubstituteVolume(vols, volume, i) ==
    IF i > Len(vols) THEN volume
    ELSE IF StartsWith(volume, vols[i].key \o <<":">>)
         THEN vols[i].val \o SubSeq(volume, Len(vols[i].key) + 1, Len(volume))
         ELSE SubstituteVolume(vols, volume, i + 1)

\* the mount once the declared volume and the placeholders are replaced
RewrittenMount(table, vols, volume) ==
    _replace_env_vars(table, SubstituteVolume(vols, volume, 1))

NeedsRelabelNoEtc(v) ==
    /\ Contains(v, ":") /\ ~EndsWith(v, RoSuffix) /\ ~EndsWith(v, ZSuffix)
    /\ Len(Split(v, ":")) = 2
    /\ ~StartsWith(Split(v, ":")[1], DevPrefix)

NeedsRelabel(v) ==
    /\ Contains(v, ":") /\ ~EndsWith(v, RoSuffix) /\ ~EndsWith(v, ZSuffix)
    /\ Len(Split(v, ":")) = 2
    /\ ~StartsWith(Split(v, ":")[1], DevPrefix)
    /\ ~StartsWith(Split(v, ":")[1], EtcPrefix)

_convert_volume_str(table, vols, volume) ==
    LET v == RewrittenMount(table, vols, volume)
    IN  IF NeedsRelabel(v) THEN v \o <<":", "z">> ELSE v

----------------------------------------------------------------------------
(* YAML values: what yaml.safe_load returns.  t is the Python type, s the   *)
(* characters of a str, n the value of an int or bool, items the entries of *)
(* a dict (in order) or of a list (each with an empty key).                *)

Y(t, s, n, items) == [t |-> t, s |-> s, n |-> n, items |-> items]

Null == Y("null", <<>>, 0, <<>>)
YStr(s) == Y("str", s, 0, <<>>)
YInt(n) == Y("int", <<>>, n, <<>>)
YBool(b) == Y("bool", <<>>, IF b THEN 1 ELSE 0, <<>>)
YDict(items) == Y("dict", <<>>, 0, items)
YList(vals) == Y("list", <<>>, 0, [i \in 1..Len(vals) |-> [key |-> <<>>, val |-> vals[i]]])
\* the document of a file yaml.safe_load cannot parse
YamlError == Y("yaml_error", <<>>, 0, <<>>)

KV(k, v) == [key |-> k, val |-> v]

K_name == <<"n","a","m","e">>
K_services == <<"s","e","r","v","i","c","e","s">>
K_volumes == <<"v","o","l","u","m","e","s">>
K_external == <<"e","x","t","e","r","n","a","l">>
K_image == <<"i","m","a","g","e">>
K_ports == <<"p","o","r","t","s">>
K_env_file == <<"e","n","v","_","f","i","l","e">>
K_environment == <<"e","n","v","i","r","o","n","m","e","n","t">>
K_healthcheck == <<"h","e","a","l","t","h","c","h","e","c","k">>
K_disable == <<"d","i","s","a","b","l","e">>
K_test == <<"t","e","s","t">>
K_restart == <<"r","e","s","t","a","r","t">>
K_depends_on == <<"d","e","p","e","n","d","s","_","o","n">>
PyNone == <<"N","o","n","e">>
PyTrue == <<"T","r","u","e">>
PyFalse == <<"F","a","l","s","e">>

\* d.get(k, default) on a dict
Get(d, k, default) == IF HasKey(d.items, k) THEN Lookup(d.items, k) ELSE default

\* bool(y)
Truthy(y) ==
    CASE y.t = "str" -> y.s # <<>>
      [] y.t \in {"int", "bool"} -> y.n # 0
      [] y.t \in {"list", "dict"} -> y.items # <<>>
      [] OTHER -> FALSE

\* for x in y
Iterable(y) == y.t \in {"list", "dict", "str"}

IterVals(y) ==
    CASE y.t = "list" -> [i \in 1..Len(y.items) |-> y.items[i].val]
      [] y.t = "dict" -> [i \in 1..Len(y.items) |-> YStr(y.items[i].key)]
      [] y.t = "str" -> [i \in 1..Len(y.s) |-> YStr(<<y.s[i]>>)]
      [] OTHER -> <<>>

\* repr(y), for strings that need no escape
RECURSIVE PyRepr(_)
PyRepr(y) ==
    CASE y.t = "str" -> <<"'">> \o y.s \o <<"'">>
      [] y.t = "int" -> Decimal(y.n)
      [] y.t = "bool" -> IF y.n # 0 THEN PyTrue ELSE PyFalse
      [] y.t = "list" ->
            <<"[">> \o Join(<<",", " ">>, [i \in 1..Len(y.items) |-> PyRepr(y.items[i].val)])
                    \o <<"]">>
      [] y.t = "dict" ->
            <<"{">> \o Join(<<",", " ">>,
                            [i \in 1..Len(y.items) |->
                                <<"'">> \o y.items[i].key \o <<"'", ":", " ">>
                                        \o PyRepr(y.items[i].val)])
                    \o <<"}">>
      [] OTHER -> PyNone

\* str(y), what an f-string interpolates
PyStr(y) == IF y.t = "str" THEN y.s ELSE PyRepr(y)

----------------------------------------------------------------------------
(* _process_volumes *)

_process_volumes_raises(vols) == vols.t # "dict"

IsExternal(volume_config) ==
    volume_config.t = "dict" /\ Truthy(Get(volume_config, K_external, Null))

ResolveVolume(volume_name, volume_config) ==
    IF IsExternal(volume_config) THEN volume_name
    ELSE ManagedPrefix \o volume_name

RECURSIVE PutVolumes(_, _, _)
PutVolumes(table, items, i) ==
    IF i > Len(items) THEN table
    ELSE PutVolumes(Put(table, items[i].key, ResolveVolume(items[i].key, items[i].val)),
                    items, i + 1)

_process_volumes(table, vols) == PutVolumes(table, vols.items, 1)

----------------------------------------------------------------------------
(* _extract_variables and _suggest_variable_value *)

suggestions ==
    <<[key |-> <<"I","M","M","I","C","H","_","V","E","R","S","I","O","N">>,
       val |-> <<"\"","v","1",".","1","2","5",".","7","\"">>],
      [key |-> <<"U","P","L","O","A","D","_","L","O","C","A","T","I","O","N">>,
       val |-> <<"\"","/","m","a","i","n","/","i","m","m","i","c","h","\"">>],
      [key |-> <<"D","B","_","D","A","T","A","_","L","O","C","A","T","I","O","N">>,
       val |-> <<"\"","$","{","S","T","A","C","K","_","P","A","T","H","}","/","p","g","d","a","t","a","\"">>],
      [key |-> <<"S","T","A","C","K","_","P","A","T","H">>,
       val |-> <<"\"","/","e","t","c","/","s","t","a","c","k","s","/","i","m","m","i","c","h","\"">>],
      [key |-> <<"D","B","_","P","A","S","S","W","O","R","D">>,
       val |-> <<"c","o","n","f","i","g",".","s","o","p","s",".","s","e","c","r","e","t","s",".","d","b","P","a","s","s","w","o","r","d",".","p","a","t","h">>],
      [key |-> <<"D","B","_","U","S","E","R","N","A","M","E">>,
       val |-> <<"\"","p","o","s","t","g","r","e","s","\"">>],
      [key |-> <<"D","B","_","D","A","T","A","B","A","S","E","_","N","A","M","E">>,
       val |-> <<"\"","i","m","m","i","c","h","\"">>]>>

_suggest_variable_value(var_name) ==
    IF HasKey(suggestions, var_name) THEN Lookup(suggestions, var_name)
    ELSE <<"\"">> \o Lower(var_name) \o <<"\"">>

StrVals(ys) == SelectSeq(ys, LAMBDA y : y.t = "str")

\* the strings _extract_variables scans in one service
ScannedStrings(service_config) ==
    LET image == Get(service_config, K_image, YStr(<<>>))
        vols == Get(service_config, K_volumes, YList(<<>>))
        environment == Get(service_config, K_environment, YDict(<<>>))
    IN  <<image>> \o StrVals(IterVals(vols))
          \o (IF environment.t = "dict"
              THEN StrVals([i \in 1..Len(environment.items) |-> environment.items[i].val])
              ELSE <<>>)

ServiceScanRaises(service_config) ==
    \/ service_config.t # "dict"
    \/ Get(service_config, K_image, YStr(<<>>)).t # "str"
    \/ ~Iterable(Get(service_config, K_volumes, YList(<<>>)))

_extract_variables_raises(services) ==
    \/ services.t # "dict"
    \/ \E i \in 1..Len(services.items) : ServiceScanRaises(services.items[i].val)

EnvVarsOf(services) ==
    UNION {UNION {_find_env_vars(ScannedStrings(services.items[i].val)[j].s) :
                    j \in 1..Len(ScannedStrings(services.items[i].val))} :
             i \in 1..Len(services.items)}

\* for var in env_vars: a set is iterated in an order the language leaves open
\* and that is the same for the same set within one process
RECURSIVE SetOrder(_)
SetOrder(S) ==
    IF S = {} THEN <<>>
    ELSE LET x == CHOOSE x \in S : TRUE IN <<x>> \o SetOrder(S \ {x})

RECURSIVE DefineVariables(_, _, _)
DefineVariables(table, names, i) ==
    IF i > Len(names) THEN table
    ELSE DefineVariables(
            IF HasKey(table, names[i]) THEN table
            ELSE Put(table, names[i], _suggest_variable_value(names[i])),
            names, i + 1)

_extract_variables(table, services) ==
    DefineVariables(table, SetOrder(EnvVarsOf(services)), 1)

----------------------------------------------------------------------------
(* _extract_dependencies *)

DepsOfListOnly(service_config) ==
    LET deps == Get(service_config, K_depends_on, YList(<<>>))
    IN  IF deps.t = "list" THEN IterVals(deps) ELSE <<>>

DepsOf(service_config) ==
    LET deps == Get(service_config, K_depends_on, YList(<<>>))
    IN  IF deps.t \in {"dict", "list"} THEN IterVals(deps) ELSE <<>>

_extract_dependencies(services) ==
    [i \in 1..Len(services.items) |->
        KV(services.items[i].key, DepsOf(services.items[i].val))]

----------------------------------------------------------------------------
(* _convert_volume *)

_convert_volume_raises(volume) == volume.t \notin {"str", "dict"}

_convert_volume(table, vols, volume) ==
    IF volume.t = "dict" THEN PyStr(volume)
    ELSE _convert_volume_str(table, vols, volume.s)

----------------------------------------------------------------------------
(* _generate_container_config.  A line is [k, a, b]; lines the source       *)
(* writes with the same text are the same record.                          *)

Line(k, a, b) == [k |-> k, a |-> a, b |-> b]
Fixed(k) == Line(k, <<>>, <<>>)

\* f'              "{x}"': an entry of a list
Item(x) == Line("item", x, <<>>)
\* '            ];'
CloseList == Fixed("close_list")
\* '          };'
CloseSub == Fixed("close_sub")

WudLabel == <<"w","u","d",".","t","a","g",".","i","n","c","l","u","d","e","=","^","v","\\","\\","d","+","\\","\\",".","\\","\\","d","+","\\","\\",".","\\","\\","d","+","$">>

ImageLines(table, service_config) ==
    LET image == Get(service_config, K_image, YStr(<<>>))
    IN  IF Truthy(image)
        THEN <<Line("image", _replace_env_vars(table, image.s), <<>>)>>
        ELSE <<>>

HasBindAddress(port) == StartsWith(port, Loopback) \/ StartsWith(port, AnyAddr)

RenderPort(port) ==
    IF port.t = "str" /\ Contains(port.s, ":")
    THEN IF ~HasBindAddress(port.s) THEN Loopback \o port.s ELSE port.s
    ELSE PyStr(port)

PortLines(service_config) ==
    LET ports == Get(service_config, K_ports, YList(<<>>))
        each == IterVals(ports)
    IN  IF Truthy(ports)
        THEN <<Fixed("publishPorts_open")>>
               \o [i \in 1..Len(each) |-> Item(RenderPort(each[i]))]
               \o <<CloseList>>
        ELSE <<>>

VolumeLines(table, vols, service_config) ==
    LET mounts == Get(service_config, K_volumes, YList(<<>>))
        each == IterVals(mounts)
    IN  IF Truthy(mounts)
        THEN <<Fixed("volumes_open")>>
               \o [i \in 1..Len(each) |-> Item(_convert_volume(table, vols, each[i]))]
               \o <<CloseList>>
        ELSE <<>>

EnvFileLines(service_config) ==
    IF Truthy(Get(service_config, K_env_file, Null))
    THEN <<Fixed("environmentFiles")>>
    ELSE <<>>

EnvironmentValue(table, value) ==
    IF value.t = "str" THEN _replace_env_vars(table, value.s) ELSE PyStr(value)

EnvironmentLines(table, service_config) ==
    LET environment == Get(service_config, K_environment, YDict(<<>>))
    IN  IF Truthy(environment) /\ environment.t = "dict"
        THEN <<Fixed("environments_open")>>
               \o [i \in 1..Len(environment.items) |->
                      Line("environment", environment.items[i].key,
                           EnvironmentValue(table, environment.items[i].val))]
               \o <<Fixed("environments_close")>>
        ELSE <<>>

HealthTest(test) ==
    IF test.t = "list"
    THEN LET each == IterVals(test)
         IN  Join(<<" ">>, [i \in 1..(Len(each) - 1) |-> each[i + 1].s])
    ELSE PyStr(test)

HealthLines(service_config) ==
    LET healthcheck == Get(service_config, K_healthcheck, YDict(<<>>))
    IN  IF Truthy(healthcheck) /\ ~Truthy(Get(healthcheck, K_disable, Null))
           /\ Truthy(Get(healthcheck, K_test, Null))
        THEN <<Line("healthCmd", HealthTest(Get(healthcheck, K_test, Null)), <<>>)>>
        ELSE <<>>

RestartLines(service_config) ==
    LET restart == Get(service_config, K_restart, Null)
    IN  IF Truthy(restart)
        THEN <<Fixed("serviceConfig_open"), Line("Restart", PyStr(restart), <<>>), CloseSub>>
        ELSE <<>>

DepItems(deps) == [i \in 1..Len(deps) |-> Item(PyStr(deps[i]) \o ServiceSuffix)]

UnitLines(deps) ==
    IF deps # <<>>
    THEN <<Fixed("unitConfig_open"), Fixed("After_open")>> \o DepItems(deps)
           \o <<CloseList, Fixed("Requires_open")>> \o DepItems(deps)
           \o <<CloseList, CloseSub>>
    ELSE <<>>

_generate_container_config_raises(service_config) ==
    LET ports == Get(service_config, K_ports, YList(<<>>))
        mounts == Get(service_config, K_volumes, YList(<<>>))
        healthcheck == Get(service_config, K_healthcheck, YDict(<<>>))
        test == Get(healthcheck, K_test, Null)
    IN  \/ Truthy(ports) /\ ~Iterable(ports)
        \/ Truthy(mounts)
             /\ \E i \in 1..Len(IterVals(mounts)) : _convert_volume_raises(IterVals(mounts)[i])
        \/ Truthy(healthcheck) /\ healthcheck.t # "dict"
        \/ /\ Truthy(healthcheck) /\ healthcheck.t = "dict"
           /\ ~Truthy(Get(healthcheck, K_disable, Null))
           /\ Truthy(test) /\ test.t = "list"
           /\ \E i \in 2..Len(IterVals(test)) : IterVals(test)[i].t # "str"

_generate_container_config(table, vols, service_name, service_config, deps, project) ==
    <<Line("container_open", service_name, <<>>), Fixed("containerConfig_open")>>
      \o ImageLines(table, service_config)
      \o PortLines(service_config)
      \o VolumeLines(table, vols, service_config)
      \o EnvFileLines(service_config)
      \o EnvironmentLines(table, service_config)
      \o HealthLines(service_config)
      \o <<Line("networks", project, <<>>),
           Fixed("labels_open"), Item(WudLabel), CloseList,
           CloseSub>>
      \o RestartLines(service_config)
      \o UnitLines(deps)
      \o <<Fixed("container_close"), Fixed("blank")>>

----------------------------------------------------------------------------
(* _generate_nix_config *)

\* '\n'.join(parts) of parts that are themselves lines: no part gives one empty line
JoinLines(parts) == IF parts = <<>> THEN <<Fixed("blank")>> ELSE Concat(parts)

\* f'      {var} = {value};'
Binding(var, value) == Line("bind", var, value)

VariableBindings(table) == [i \in 1..Len(table) |-> Binding(table[i].key, table[i].val)]

StandardBindings(project) ==
    <<Binding(STACK_PATH, StacksDir \o project \o <<"\"">>), Fixed("inherit_networks")>>

let_bindings(table, project) == VariableBindings(table) \o StandardBindings(project)

_generate_nix_config_raises(services) ==
    \E i \in 1..Len(services.items) :
        _generate_container_config_raises(services.items[i].val)

Containers(table, vols, services, project, deps) ==
    [i \in 1..Len(services.items) |->
        _generate_container_config(table, vols, services.items[i].key, services.items[i].val,
            IF HasKey(deps, services.items[i].key)
            THEN Lookup(deps, services.items[i].key) ELSE <<>>,
            project)]

_generate_nix_config(table, vols, services, project, deps) ==
    <<Fixed("quadlet_open"), Fixed("let")>>
      \o let_bindings(table, project)
      \o <<Fixed("in"), Fixed("body_open"), Line("network_decl", project, <<>>),
           Fixed("containers_open")>>
      \o JoinLines(Containers(table, vols, services, project, deps))
      \o <<Fixed("containers_close"), Fixed("body_close")>>

----------------------------------------------------------------------------
(* The documents and arguments the model runs on *)

DirName == <<"d">>  \* Path(compose_file).parent.name
ArgName == <<"p">>  \* the -n argument
DocName == <<"q">>  \* the document's name
SvcA == <<"a">>
SvcB == <<"b">>
VolData == <<"d","a","t","a">>
VolExt == <<"e","x","t">>
ImgDefault == <<"i",":","$","{","T",":","-","l","}">>
ImgStack == <<"$","{","S","T","A","C","K","_","P","A","T","H","}","/","i">>
PortPlain == <<"8",":","9">>
PortLan == <<"1","0",".","0",".","0",".","1",":","8",":","9">>
PortAny == <<"0",".","0",".","0",".","0",":","8",":","9">>
PortLoop == <<"1","2","7",".","0",".","0",".","1",":","8",":","9">>
MntData == <<"d","a","t","a",":","/","t">>
MntDev == <<"/","d","e","v","/","x",":","/","d">>
MntRo == <<"$","{","U","}",":","/","t",":","r","o">>
MntExt == <<"e","x","t",":","/","t">>
MntEtc == <<"/","e","t","c","/","x",":","/","y">>
EnvK == <<"K">>
EnvN == <<"N">>
EnvDefault == <<"$","{","A",":","-","b","}">>
EnvEntry == <<"K","=","$","{","Q","}">>
HcCmd == <<"C","M","D">>
HcCurl == <<"c","u","r","l">>
HcUrl == <<"x">>
Always == <<"a","l","w","a","y","s">>
DotEnv == <<".","e","n","v">>
Ktype == <<"t","y","p","e">>
Kbind == <<"b","i","n","d">>
Ksource == <<"s","o","u","r","c","e">>
Ktarget == <<"t","a","r","g","e","t">>
PathS == <<"/","s">>
PathT == <<"/","t">>
NameA == <<"A">>
NameB == <<"B">>

\* a key the mapping does not have
Absent == Y("absent", <<>>, 0, <<>>)

Opt(k, v) == IF v.t = "absent" THEN <<>> ELSE <<KV(k, v)>>

LongMount == YDict(<<KV(Ktype, YStr(Kbind)), KV(Ksource, YStr(PathS)), KV(Ktarget, YStr(PathT))>>)

ImageChoices == <<Absent, YStr(ImgDefault), YStr(ImgStack)>>

PortChoices ==
    <<Absent,
      YList(<<YStr(PortPlain), YInt(80)>>),
      YList(<<YStr(PortLan), YStr(PortAny), YStr(PortLoop)>>)>>

MountChoices ==
    <<Absent,
      YList(<<YStr(MntData), YStr(MntDev), LongMount>>),
      YList(<<YStr(MntRo), YStr(MntExt), YStr(MntEtc)>>),
      YList(<<YInt(5)>>)>>

EnvironmentChoices ==
    <<Absent,
      YDict(<<KV(EnvK, YStr(EnvDefault)), KV(EnvN, YInt(5))>>),
      YList(<<YStr(EnvEntry)>>)>>

DependsChoices ==
    <<Absent,
      YList(<<YStr(SvcA), YStr(SvcB)>>),
      YDict(<<KV(SvcB, YDict(<<>>)), KV(SvcA, Null)>>),
      YStr(SvcA)>>

\* healthcheck, restart and env_file together
OtherChoices ==
    <<<<>>,
      <<KV(K_healthcheck, YDict(<<KV(K_test, YList(<<YStr(HcCmd), YStr(HcCurl), YStr(HcUrl)>>))>>)),
        KV(K_restart, YStr(Always)), KV(K_env_file, YStr(DotEnv))>>,
      <<KV(K_healthcheck, YDict(<<KV(K_disable, YBool(TRUE)), KV(K_test, YStr(HcCurl))>>))>>,
      <<KV(K_healthcheck, YStr(HcCurl))>>>>

VolumeDeclChoices ==
    <<Absent,
      YDict(<<KV(VolData, Null), KV(VolExt, YDict(<<KV(K_external, YBool(TRUE))>>))>>)>>

Service(image, ports, mounts, environment, depends, other) ==
    YDict(Opt(K_image, image) \o Opt(K_ports, ports) \o Opt(K_volumes, mounts)
            \o Opt(K_environment, environment) \o Opt(K_depends_on, depends) \o other)

\* a well-formed service next to the one that varies
PlainService == Service(Absent, Absent, Absent, Absent, Absent, <<>>)

Document(name, decls, services) ==
    YDict(Opt(K_name, name) \o Opt(K_volumes, decls) \o Opt(K_services, services))

\* documents whose shape makes a stage raise, or that hold no service
OddDocuments ==
    <<YamlError, Null, YDict(<<>>), YList(<<YStr(SvcA)>>), YStr(SvcA),
      Document(YStr(DocName), Null, YDict(<<KV(SvcA, PlainService)>>)),
      Document(Absent, Absent, Null),
      Document(Absent, Absent, YDict(<<KV(SvcA, Null)>>)),
      Document(Absent, Absent, YDict(<<KV(SvcA, Service(YInt(5), Absent, Absent, Absent, Absent, <<>>))>>)),
      Document(Absent, Absent, YDict(<<KV(SvcA, Service(Absent, Absent, Null, Absent, Absent, <<>>))>>)),
      Document(Absent, Absent, YDict(<<KV(SvcA, Service(Absent, YInt(80), Absent, Absent, Absent, <<>>))>>)),
      Document(YStr(DocName), Absent, Absent)>>

\* the service that varies in what the variable discovery reads
ServiceA(i, m, e) ==
    Service(ImageChoices[i], Absent, MountChoices[m], EnvironmentChoices[e], Absent, <<>>)

\* the service that varies in what is rendered without the tables
ServiceBChoices ==
    <<PlainService,
      Service(Absent, PortChoices[2], Absent, Absent, DependsChoices[2], OtherChoices[2]),
      Service(Absent, PortChoices[3], Absent, Absent, DependsChoices[3], OtherChoices[3]),
      Service(Absent, Absent, Absent, Absent, DependsChoices[4], OtherChoices[4]),
      Service(Absent, PortChoices[2], Absent, Absent, DependsChoices[3], <<>>)>>

RegularDocument(v, i, m, e, k) ==
    Document(IF v = 1 THEN Absent ELSE YStr(DocName), VolumeDeclChoices[v],
             YDict(<<KV(SvcA, ServiceA(i, m, e)), KV(SvcB, ServiceBChoices[k])>>))

----------------------------------------------------------------------------
(* The stages of convert.  Each is one action; a stage that raises leaves   *)
(* the call at "raised".                                                    *)

\* what the output file held before the run
OldContent == <<Fixed("old")>>

\* lines 22-34: open and parse the file, refuse an empty document, settle the
\* project name, read services and volumes
LoadRaises ==
    \/ ~compose_exists
    \/ doc.t = "yaml_error"
    \/ ~Truthy(doc)
    \/ doc.t # "dict"

EffectiveName ==
    IF arg_name # <<>> THEN arg_name ELSE PyStr(Get(doc, K_name, YStr(DirName)))

DocServices == Get(doc, K_services, YDict(<<>>))

DocVolumes == Get(doc, K_volumes, YDict(<<>>))

LoadOpeningOutput ==
    /\ pc = "load"
    /\ IF LoadRaises
       THEN pc' = "raised" /\ UNCHANGED project_name
       ELSE pc' = "_process_volumes" /\ project_name' = EffectiveName
    /\ out_file' = (IF arg_output /\ out_writable
                    THEN [exists |-> TRUE, content |-> <<>>] ELSE out_file)
    /\ UNCHANGED <<compose_exists, arg_output, arg_name, out_writable, doc, variables,
                   volumes, networks, dependencies, nix_config, stdout, stderr,
                   exit_code, calls, text, result>>

Load ==
    /\ pc = "load"
    /\ IF LoadRaises
       THEN pc' = "raised" /\ UNCHANGED project_name
       ELSE pc' = "_process_volumes" /\ project_name' = EffectiveName
    /\ UNCHANGED <<compose_exists, arg_output, arg_name, out_writable, doc, variables,
                   volumes, networks, dependencies, nix_config, out_file, stdout, stderr,
                   exit_code, calls, text, result>>

\* line 37
ProcessVolumes ==
    /\ pc = "_process_volumes"
    /\ IF _process_volumes_raises(DocVolumes)
       THEN pc' = "raised" /\ UNCHANGED volumes
       ELSE pc' = "_extract_variables" /\ volumes' = _process_volumes(volumes, DocVolumes)
    /\ UNCHANGED <<compose_exists, arg_output, arg_name, out_writable, doc, project_name,
                   variables, networks, dependencies, nix_config, out_file, stdout, stderr,
                   exit_code, calls, text, result>>

\* line 40
ExtractVariables ==
    /\ pc = "_extract_variables"
    /\ IF _extract_variables_raises(DocServices)
       THEN pc' = "raised" /\ UNCHANGED variables
       ELSE pc' = "_extract_dependencies"
            /\ variables' = _extract_variables(variables, DocServices)
    /\ UNCHANGED <<compose_exists, arg_output, arg_name, out_writable, doc, project_name,
                   volumes, networks, dependencies, nix_config, out_file, stdout, stderr,
                   exit_code, calls, text, result>>

\* line 41
ExtractDependencies ==
    /\ pc = "_extract_dependencies"
    /\ dependencies' = _extract_dependencies(DocServices)
    /\ pc' = "generate"
    /\ UNCHANGED <<compose_exists, arg_output, arg_name, out_writable, doc, project_name,
                   variables, volumes, networks, nix_config, out_file, stdout, stderr,
                   exit_code, calls, text, result>>

\* line 44
GenerateNixConfig ==
    /\ pc = "generate"
    /\ networks' = networks \cup {project_name}
    /\ IF _generate_nix_config_raises(DocServices)
       THEN pc' = "raised" /\ UNCHANGED nix_config
       ELSE pc' = "write"
            /\ nix_config' = _generate_nix_config(variables, volumes, DocServices,
                                                 project_name, dependencies)
    /\ UNCHANGED <<compose_exists, arg_output, arg_name, out_writable, doc, project_name,
                   variables, volumes, dependencies, out_file, stdout, stderr,
                   exit_code, calls, text, result>>

\* lines 47-51
WriteOutput ==
    /\ pc = "write"
    /\ IF arg_output
       THEN IF out_writable
            THEN pc' = "returned" /\ out_file' = [exists |-> TRUE, content |-> nix_config]
            ELSE pc' = "raised" /\ UNCHANGED out_file
       ELSE pc' = "returned" /\ UNCHANGED out_file
    /\ UNCHANGED <<compose_exists, arg_output, arg_name, out_writable, doc, project_name,
                   variables, volumes, networks, dependencies, nix_config, stdout, stderr,
                   exit_code, calls, text, result>>

----------------------------------------------------------------------------
(* main *)

\* lines 327-331: the existence test, then the converter's construction
MainStart ==
    /\ pc = "main"
    /\ IF ~compose_exists
       THEN /\ stderr' = <<Fixed("not_found")>>
            /\ exit_code' = 1
            /\ pc' = "exited"
            /\ UNCHANGED <<variables, volumes, networks, calls>>
       ELSE /\ variables' = <<>>
            /\ volumes' = <<>>
            /\ networks' = {}
            /\ calls' = 1
            /\ pc' = "load"
            /\ UNCHANGED <<stderr, exit_code>>
    /\ UNCHANGED <<compose_exists, arg_output, arg_name, out_writable, doc, project_name,
                   dependencies, nix_config, out_file, stdout, text, result>>

\* lines 336-339
MainReport ==
    /\ pc = "returned"
    /\ stdout' = (IF ~arg_output THEN nix_config ELSE <<Fixed("converted")>>)
    /\ exit_code' = 0
    /\ pc' = "exited"
    /\ UNCHANGED <<compose_exists, arg_output, arg_name, out_writable, doc, project_name,
                   variables, volumes, networks, dependencies, nix_config, out_file,
                   stderr, calls, text, result>>

\* lines 341-343
MainExcept ==
    /\ pc = "raised"
    /\ stderr' = <<Fixed("error")>>
    /\ exit_code' = 1
    /\ pc' = "exited"
    /\ UNCHANGED <<compose_exists, arg_output, arg_name, out_writable, doc, project_name,
                   variables, volumes, networks, dependencies, nix_config, out_file,
                   stdout, calls, text, result>>

\* the output argument, whether it can be opened, and whether the file is there
OutputChoices ==
    <<[given |-> FALSE, writable |-> TRUE, exists |-> FALSE],
      [given |-> TRUE, writable |-> TRUE, exists |-> FALSE],
      [given |-> TRUE, writable |-> TRUE, exists |-> TRUE],
      [given |-> TRUE, writable |-> FALSE, exists |-> TRUE],
      [given |-> TRUE, writable |-> FALSE, exists |-> FALSE]>>

InitCommon ==
    /\ project_name = <<>>
    /\ variables = <<>>
    /\ volumes = <<>>
    /\ networks = {}
    /\ dependencies = <<>>
    /\ nix_config = <<>>
    /\ stdout = <<>>
    /\ stderr = <<>>
    /\ exit_code = -1
    /\ text = <<>>
    /\ result = <<>>

InitDocument ==
    \/ \E i \in 1..Len(OddDocuments) : doc = OddDocuments[i]
    \/ \E v \in 1..Len(VolumeDeclChoices), i \in 1..Len(ImageChoices),
          m \in 1..Len(MountChoices), e \in 1..Len(EnvironmentChoices),
          k \in 1..Len(ServiceBChoices) :
            doc = RegularDocument(v, i, m, e, k)

Init ==
    /\ pc = "main"
    /\ calls = 0
    /\ \E o \in 1..Len(OutputChoices) :
        /\ arg_output = OutputChoices[o].given
        /\ out_writable = OutputChoices[o].writable
        /\ out_file = [exists |-> OutputChoices[o].exists,
                       content |-> IF OutputChoices[o].exists THEN OldContent ELSE <<>>]
    /\ arg_name \in {<<>>, ArgName}
    /\ \/ compose_exists = FALSE /\ doc = Null
       \/ compose_exists = TRUE /\ InitDocument
    /\ InitCommon

Next ==
    \/ MainStart
    \/ Load
    \/ ProcessVolumes
    \/ ExtractVariables
    \/ ExtractDependencies
    \/ GenerateNixConfig
    \/ WriteOutput
    \/ MainReport
    \/ MainExcept

Spec == Init /\ [][Next]_vars

----------------------------------------------------------------------------
(* Several convert calls on one converter object *)

ConvertAgain ==
    /\ pc \in {"returned", "raised"}
    /\ calls < MaxCalls
    /\ calls' = calls + 1
    /\ pc' = "load"
    /\ arg_name' \in {<<>>, ArgName}
    /\ \E v \in 1..2, i \in 1..Len(ImageChoices), m \in 1..2, e \in 1..2, k \in 1..2 :
            doc' = RegularDocument(v, i, m, e, k)
    /\ project_name' = <<>>
    /\ dependencies' = <<>>
    /\ nix_config' = <<>>
    /\ UNCHANGED <<compose_exists, arg_output, out_writable, variables, volumes, networks,
                   out_file, stdout, stderr, exit_code, text, result>>

InitReuse ==
    /\ pc = "load"
    /\ calls = 1
    /\ compose_exists = TRUE
    /\ arg_output = FALSE
    /\ out_writable = TRUE
    /\ out_file = [exists |-> FALSE, content |-> <<>>]
    /\ arg_name \in {<<>>, ArgName}
    /\ \/ doc = Null
       \/ \E v \in 1..2, i \in 1..Len(ImageChoices), m \in 1..2, e \in 1..2, k \in 1..2 :
            doc = RegularDocument(v, i, m, e, k)
    /\ InitCommon

NextReuse ==
    \/ Load
    \/ ProcessVolumes
    \/ ExtractVariables
    \/ ExtractDependencies
    \/ GenerateNixConfig
    \/ WriteOutput
    \/ ConvertAgain

SpecReuse == InitReuse /\ [][NextReuse]_vars

----------------------------------------------------------------------------
(* Direct calls of the string helpers *)

Pieces ==
    <<<<"$","{","A",":","-">>,
      <<"}">>,
      <<"b">>,
      <<"$">>,
      <<"$","{","B","}">>,
      <<"{","B",":","-","c","}">>>>

MountSources ==
    <<<<"d","a","t","a">>,
      <<"e","x","t">>,
      <<"/","d","e","v","/","x">>,
      <<"/","e","t","c","/","x">>,
      <<"/","s","r","v">>,
      <<"$","{","U","}">>,
      <<"$","{","A",":","-","b","}">>,
      <<"$","{","A",":","-","}">>>>

MountTargets == <<<<":","/","t">>, <<":","z">>, <<":","r","o">>, <<>>>>

MountModes == <<<<>>, <<":","r","o">>, <<":","z">>, <<":","r","w">>>>

PieceTexts ==
    {Concat([i \in 1..Len(f) |-> Pieces[f[i]]]) :
        f \in UNION {[1..n -> 1..Len(Pieces)] : n \in 0..MaxPieces}}

MountTexts ==
    {MountSources[s] \o MountTargets[g] \o MountModes[m] :
        s \in 1..Len(MountSources), g \in 1..Len(MountTargets), m \in 1..Len(MountModes)}

\* the table _extract_variables builds from the text and from the names other
\* strings of the document refer to
TableFor(txt, others) == DefineVariables(<<>>, SetOrder(_find_env_vars(txt) \cup others), 1)

InitFn ==
    /\ pc = "helper"
    /\ calls = 0
    /\ compose_exists = TRUE
    /\ arg_output = FALSE
    /\ out_writable = TRUE
    /\ out_file = [exists |-> FALSE, content |-> <<>>]
    /\ arg_name = <<>>
    /\ doc = Null
    /\ project_name = <<>>
    /\ networks = {}
    /\ dependencies = <<>>
    /\ nix_config = <<>>
    /\ stdout = <<>>
    /\ stderr = <<>>
    /\ exit_code = -1
    /\ result = <<>>
    /\ \/ text \in PieceTexts /\ volumes = <<>>
       \/ /\ text \in MountTexts
          /\ \E v \in 1..Len(VolumeDeclChoices) :
                volumes = _process_volumes(<<>>,
                            IF v = 1 THEN YDict(<<>>) ELSE VolumeDeclChoices[v])
    /\ \E others \in {{}, {NameA}, {NameB}} : variables = TableFor(text, others)

UnchangedByHelper ==
    UNCHANGED <<compose_exists, arg_output, arg_name, out_writable, doc, project_name,
                variables, volumes, networks, dependencies, nix_config, out_file,
                stdout, stderr, exit_code, calls, text>>

\* _replace_env_vars(text), then _replace_env_vars of what it returned
ReplaceEnvVarsCall ==
    /\ pc \in {"helper", "replaced"}
    /\ Len(result) < MaxApply
    /\ result' = Append(result,
                    _replace_env_vars(variables,
                        IF result = <<>> THEN text ELSE result[Len(result)]))
    /\ pc' = "replaced"
    /\ UnchangedByHelper

\* _convert_volume(text)
ConvertVolumeCall ==
    /\ pc = "helper"
    /\ result' = <<_convert_volume(variables, volumes, YStr(text))>>
    /\ pc' = "converted"
    /\ UnchangedByHelper

\* _find_env_vars(text)
FindEnvVarsCall ==
    /\ pc = "helper"
    /\ result' = SetOrder(_find_env_vars(text))
    /\ pc' = "found"
    /\ UnchangedByHelper

NextFn ==
    \/ ReplaceEnvVarsCall
    \/ ConvertVolumeCall
    \/ FindEnvVarsCall

SpecFn == InitFn /\ [][NextFn]_vars

----------------------------------------------------------------------------
(* Reading an assembled document back *)

Assembled == nix_config # <<>>

ServiceCount == Len(DocServices.items)
ServiceName(i) == DocServices.items[i].key
ServiceConfig(i) == DocServices.items[i].val

\* the lines of the block of service name, from its opening to its closing line
BlockOf(cfg, name) ==
    LET i == CHOOSE i \in 1..Len(cfg) : cfg[i] = Line("container_open", name, <<>>)
        j == CHOOSE j \in i..Len(cfg) :
                /\ cfg[j].k = "container_close"
                /\ \A m \in i..(j - 1) : cfg[m].k # "container_close"
    IN  SubSeq(cfg, i, j)

HasLine(block, k) == \E i \in 1..Len(block) : block[i].k = k

\* the entries of the list that the line k opens
ListUnder(block, k) ==
    LET i == CHOOSE i \in 1..Len(block) : block[i].k = k
        j == CHOOSE j \in i..Len(block) :
                /\ block[j].k = "close_list"
                /\ \A m \in i..(j - 1) : block[m].k # "close_list"
    IN  [m \in 1..(j - i - 1) |-> block[i + m].a]

ColonCount(s) == Cardinality({i \in 1..Len(s) : s[i] = ":"})

----------------------------------------------------------------------------
(* C1 *)

\* what a converter with empty tables returns for the document of this call
FreshConfig ==
    _generate_nix_config(_extract_variables(<<>>, DocServices),
                        _process_volumes(<<>>, DocVolumes),
                        DocServices, project_name, _extract_dependencies(DocServices))

\* C1: no conversion state survives from one convert call to the next: when a
\* call returns, the Variable Table and the Volume Resolution Table hold only
\* entries of this call's document, and the text returned is the text a fresh
\* converter returns for the same document and project name.
C1_NoStateSurvives ==
    pc = "returned" =>
        /\ Keys(variables) = EnvVarsOf(DocServices)
        /\ Keys(volumes) = Keys(DocVolumes.items)
        /\ nix_config = FreshConfig

----------------------------------------------------------------------------
(* C2 *)

IsName(n) == n # <<>> /\ \A i \in 1..Len(n) : n[i] \notin {"$", "{", "}", ":"}

\* the names N such that ${N} or ${N:-default} occurs in s
PlaceholderNames(s) ==
    {SubSeq(s, p[1] + 2, p[2]) :
        p \in {q \in (1..Len(s)) \X (1..Len(s)) :
                /\ OpensAt(s, q[1])
                /\ q[2] >= q[1] + 2
                /\ q[2] + 1 <= Len(s)
                /\ IsName(SubSeq(s, q[1] + 2, q[2]))
                /\ \/ s[q[2] + 1] = "}"
                   \/ /\ q[2] + 2 <= Len(s)
                      /\ s[q[2] + 1] = ":" /\ s[q[2] + 2] = "-"
                      /\ \E j \in (q[2] + 3)..Len(s) : s[j] = "}"}}

\* the image, the string mounts and the string environment values of a service
DiscoveryStrings(service_config) ==
    LET image == Get(service_config, K_image, Absent)
        mounts == Get(service_config, K_volumes, Absent)
        environment == Get(service_config, K_environment, Absent)
    IN  (IF image.t = "str" THEN {image.s} ELSE {})
        \cup (IF mounts.t = "list"
              THEN {mounts.items[i].val.s :
                        i \in {j \in 1..Len(mounts.items) : mounts.items[j].val.t = "str"}}
              ELSE {})
        \cup (IF environment.t = "dict"
              THEN {environment.items[i].val.s :
                        i \in {j \in 1..Len(environment.items) :
                                    environment.items[j].val.t = "str"}}
              ELSE {})

ReferencedNames ==
    UNION {UNION {PlaceholderNames(s) : s \in DiscoveryStrings(ServiceConfig(i))} :
            i \in 1..ServiceCount}

\* C2: after _extract_variables the keys of the Variable Table are exactly the
\* names referenced by a placeholder, with or without a default, in a service's
\* image, string mounts or string environment values; no key holds a default
\* clause, and each key has one value.
C2_KeysAreReferencedNames ==
    pc \in {"_extract_dependencies", "generate", "write", "returned"} =>
        /\ Keys(variables) = ReferencedNames
        /\ \A i, j \in 1..Len(variables) : variables[i].key = variables[j].key => i = j

----------------------------------------------------------------------------
(* C3 *)

\* C3: rewriting is idempotent: _replace_env_vars applied to its own result
\* returns that result.
C3_RewriteIdempotent ==
    (pc = "replaced" /\ Len(result) = 2) => result[2] = result[1]

----------------------------------------------------------------------------
(* C4 *)

\* text is one reference, ${N} or ${N:-d}, d possibly empty
IsReference(s) ==
    /\ Len(s) >= 4
    /\ OpensAt(s, 1)
    /\ s[Len(s)] = "}"
    /\ \A i \in 3..(Len(s) - 1) : s[i] \notin {"$", "{", "}"}
    /\ LET c == SubSeq(s, 3, Len(s) - 1)
       IN  \/ IsName(c)
           \/ \E k \in 2..(Len(c) - 1) :
                c[k] = ":" /\ c[k + 1] = "-" /\ IsName(SubSeq(c, 1, k - 1))

RefContent(s) == SubSeq(s, 3, Len(s) - 1)

RefHasDefault(s) == ~IsName(RefContent(s))

RefSep(s) == CHOOSE k \in 2..(Len(RefContent(s)) - 1) :
                /\ RefContent(s)[k] = ":" /\ RefContent(s)[k + 1] = "-"
                /\ IsName(SubSeq(RefContent(s), 1, k - 1))

RefName(s) ==
    IF RefHasDefault(s) THEN SubSeq(RefContent(s), 1, RefSep(s) - 1) ELSE RefContent(s)

RefDefault(s) == SubSeq(RefContent(s), RefSep(s) + 2, Len(RefContent(s)))

\* C4: a reference whose name is a key of the Variable Table is replaced by
\* ${NAME} without default; otherwise one with a default, empty or not, by the
\* default text; otherwise it stays ${NAME}.
C4_ReferenceResolution ==
    (pc = "replaced" /\ IsReference(text)) =>
        result[1] = (IF HasKey(variables, RefName(text))
                     THEN <<"$", "{">> \o RefName(text) \o <<"}">>
                     ELSE IF RefHasDefault(text) THEN RefDefault(text)
                     ELSE <<"$", "{">> \o RefName(text) \o <<"}">>)

----------------------------------------------------------------------------
(* C5 *)

\* C5: a string port host:container is rendered behind 127.0.0.1:, and a string
\* port that carries a bind address, whatever the address, is rendered as it is.
C5_PortsRendered ==
    Assembled =>
        \A i \in 1..ServiceCount :
            LET ports == Get(ServiceConfig(i), K_ports, Absent)
                rendered == ListUnder(BlockOf(nix_config, ServiceName(i)), "publishPorts_open")
            IN  (ports.t = "list" /\ ports.items # <<>>) =>
                    \A j \in 1..Len(ports.items) :
                        LET port == ports.items[j].val
                        IN  (port.t = "str" /\ ColonCount(port.s) >= 1) =>
                                rendered[j] = (IF ColonCount(port.s) = 1
                                               THEN Loopback \o port.s ELSE port.s)

----------------------------------------------------------------------------
(* C6 *)

MountSource(v) == SubSeq(v, 1, FirstIndex(v, ":", 1) - 1)

Relabelled == result[1] = RewrittenMount(variables, volumes, text) \o ZSuffix

\* C6 as stated: the suffix :z is appended exactly when the rewritten mount has
\* two colon-delimited parts and a source outside /dev and /etc.
C6_RelabelAsStated ==
    pc = "converted" =>
        LET v == RewrittenMount(variables, volumes, text)
        IN  Relabelled <=>
                /\ ColonCount(v) = 1
                /\ ~StartsWith(MountSource(v), DevPrefix)
                /\ ~StartsWith(MountSource(v), EtcPrefix)

\* C6: _convert_volume returns the rewritten mount, with the suffix :z appended
\* exactly when it has two colon-delimited parts, does not already end in :ro or
\* :z, and its source starts with neither /dev nor /etc; a mount data:/t of a
\* declared managed volume data is rendered ${STACK_PATH}/data:/t:z.
C6_RelabelRule ==
    pc = "converted" =>
        LET v == RewrittenMount(variables, volumes, text)
        IN  /\ result[1] = v \/ Relabelled
            /\ Relabelled <=>
                /\ ColonCount(v) = 1
                /\ ~EndsWith(v, RoSuffix) /\ ~EndsWith(v, ZSuffix)
                /\ ~StartsWith(MountSource(v), DevPrefix)
                /\ ~StartsWith(MountSource(v), EtcPrefix)
            /\ (text = MntData /\ HasKey(volumes, VolData)) =>
                    result[1] = ManagedPrefix \o MntData \o ZSuffix

C6_Witness ==
    /\ pc = "converted"
    /\ text = MntData
    /\ HasKey(volumes, VolData)
    /\ result = <<ManagedPrefix \o MntData \o ZSuffix>>

----------------------------------------------------------------------------
(* C7 *)

RunFails ==
    \/ ~compose_exists
    \/ LoadRaises
    \/ _process_volumes_raises(DocVolumes)
    \/ _extract_variables_raises(DocServices)
    \/ _generate_nix_config_raises(DocServices)
    \/ arg_output /\ ~out_writable

\* the output file is as it was before the run
OutputUntouched == out_file.exists => out_file.content = OldContent

----------------------------------------------------------------------------
(* C8 *)

\* the dependency list the document declares for a service
DeclaredDeps(service_config) ==
    LET deps == Get(service_config, K_depends_on, Absent)
    IN  IF deps.t = "dict" THEN [i \in 1..Len(deps.items) |-> deps.items[i].key]
        ELSE IF deps.t = "list" THEN [i \in 1..Len(deps.items) |-> deps.items[i].val.s]
        ELSE <<>>

UnitNames(deps) == [i \in 1..Len(deps) |-> deps[i] \o ServiceSuffix]

\* C8: every service has an entry in the Dependency Table, the keys of a mapping
\* depends_on, the list of a list one, else empty; its block has a unitConfig
\* sub-block exactly when the list is not empty, and After and Requires both
\* list <dep>.service for each dependency, in the order of the list.
C8_DependencyOrder ==
    /\ pc \in {"generate", "write", "returned"} =>
        \A i \in 1..ServiceCount :
            /\ HasKey(dependencies, ServiceName(i))
            /\ LET deps == Lookup(dependencies, ServiceName(i))
               IN  [j \in 1..Len(deps) |-> PyStr(deps[j])] = DeclaredDeps(ServiceConfig(i))
    /\ Assembled =>
        \A i \in 1..ServiceCount :
            LET block == BlockOf(nix_config, ServiceName(i))
                deps == DeclaredDeps(ServiceConfig(i))
            IN  /\ HasLine(block, "unitConfig_open") <=> deps # <<>>
                /\ deps # <<>> =>
                    /\ ListUnder(block, "After_open") = UnitNames(deps)
                    /\ ListUnder(block, "Requires_open") = UnitNames(deps)

\* an assembled document with a service whose mapping-form depends_on names b, a
C8_Witness ==
    /\ Assembled
    /\ ServiceCount = 2
    /\ Get(ServiceConfig(2), K_depends_on, Absent).t = "dict"
    /\ ListUnder(BlockOf(nix_config, SvcB), "Requires_open")
          = <<SvcB \o ServiceSuffix, SvcA \o ServiceSuffix>>

----------------------------------------------------------------------------
(* C9 *)

\* the variables a service declares: the keys of a mapping, the part before "="
\* of each entry of a list
DeclaredEnvNames(environment) ==
    IF environment.t = "dict"
    THEN {environment.items[i].key : i \in 1..Len(environment.items)}
    ELSE IF environment.t = "list"
    THEN {Split(environment.items[i].val.s, "=")[1] : i \in 1..Len(environment.items)}
    ELSE {}

\* C9: every environment variable a service declares, in mapping or list form,
\* appears in the service's block, a string value of the mapping rewritten.
C9_EnvironmentKept ==
    Assembled =>
        \A i \in 1..ServiceCount :
            LET environment == Get(ServiceConfig(i), K_environment, Absent)
                block == BlockOf(nix_config, ServiceName(i))
            IN  /\ \A n \in DeclaredEnvNames(environment) :
                        \E m \in 1..Len(block) :
                            block[m].k = "environment" /\ block[m].a = n
                /\ environment.t = "dict" =>
                        \A e \in 1..Len(environment.items) :
                            environment.items[e].val.t = "str" =>
                                \E m \in 1..Len(block) :
                                    block[m] = Line("environment", environment.items[e].key,
                                                    _replace_env_vars(variables,
                                                        environment.items[e].val.s))

----------------------------------------------------------------------------
(* C10 *)

LetBindings == SelectSeq(nix_config, LAMBDA l : l.k = "bind")

BindingsOf(n) == {i \in 1..Len(LetBindings) : LetBindings[i].a = n}

\* C10: every name bound in the let block is bound once: one binding for each
\* discovered variable, one for STACK_PATH, and no name with two.
C10_BoundOnce ==
    Assembled =>
        /\ \A i \in 1..Len(variables) : Cardinality(BindingsOf(variables[i].key)) = 1
        /\ Cardinality(BindingsOf(STACK_PATH)) = 1
        /\ \A i, j \in 1..Len(LetBindings) :
                LetBindings[i].a = LetBindings[j].a => i = j

====
